---- MODULE Spec2Model ----
(***************************************************************************)
(* A model of src/app.py, the UCLA Assignment Exporter: the column         *)
(* inferencer, the week-ending date default, and the filter / aggregate /  *)
(* join / line-ID / export script.                                         *)
(*                                                                         *)
(* Encoding.  A cell, a header and a name are TLA+ strings.  A blank cell  *)
(* (pandas NaN) is the string "nan", which is what str() and astype(str)   *)
(* make of it and what pandas reads the text nan as.  A coerced number is  *)
(* a natural number, or NaN (np.nan).  Python's None is the string None.   *)
(***************************************************************************)
EXTENDS Integers, Sequences, FiniteSets, TLC

VARIABLES
  \* infer_column(df, candidates), called on its own
  df_columns, candidates, guessed, inferPc,
  \* most_recent_sunday(anchor)
  anchor, d, sundayPc,
  \* the script: its position, the two uploads, and its module-level names
  pc, payroll_file, assign_file, payroll_df, assign_df, mapping, custom_we,
  payroll_ucla, summary, assign_df_slim, joined, final, unmatched,
  out_buf, download, stages

inferVars  == <<df_columns, candidates, guessed, inferPc>>
sundayVars == <<anchor, d, sundayPc>>
inputVars  == <<payroll_file, assign_file>>
frameVars  == <<payroll_df, assign_df, mapping, custom_we, payroll_ucla, summary,
                assign_df_slim, joined, final, unmatched>>
outVars    == <<out_buf, download>>
scriptVars == <<pc, inputVars, frameVars, outVars, stages>>
vars == <<inferVars, sundayVars, scriptVars>>

-----------------------------------------------------------------------------
(* Bounds of the model *)

MaxColLen  == 2    \* characters of a header in the inferencer's own runs
MaxCandLen == 2    \* characters of a candidate
MaxCols    == 2    \* columns of the table
MaxCands   == 2    \* candidates of one call
MaxOrdinal == 40   \* the latest anchor date, as a proleptic ordinal
MaxPayrollRows == 2   \* rows of an uploaded payroll
MaxAssignRows  == 2   \* rows of an uploaded roster
MaxIdRows      == 6   \* the small row counts of the line-ID runs

-----------------------------------------------------------------------------
(* Strings *)

None == "<None>"

UpperChars == "ABCDEFGHIJKLMNOPQRSTUVWXYZ"
LowerChars == "abcdefghijklmnopqrstuvwxyz"

CharAt(s, i) == SubSeq(s, i, i)

\* the first position of the character c in s, 0 when it is not there
IndexOf(c, s) ==
  LET at == {i \in 1..Len(s) : CharAt(s, i) = c}
  IN  IF at = {} THEN 0 ELSE CHOOSE i \in at : \A j \in at : i <= j

\* the position of each character of s (s has no character twice)
Positions(s) ==
  [c \in {CharAt(s, i) : i \in 1..Len(s)} |-> CHOOSE i \in 1..Len(s) : CharAt(s, i) = c]

UpperPos == Positions(UpperChars)

LowerChar(c) ==
  IF c \in DOMAIN UpperPos THEN CharAt(LowerChars, UpperPos[c]) ELSE c

RECURSIVE Lower(_)
\* str.lower()
Lower(s) ==
  IF Len(s) = 0 THEN "" ELSE LowerChar(CharAt(s, 1)) \o Lower(SubSeq(s, 2, Len(s)))

\* Python's `c in k` on strings
Contains(k, c) ==
  \E i \in 1..(Len(k) - Len(c) + 1) : SubSeq(k, i, i + Len(c) - 1) = c

-----------------------------------------------------------------------------
(* infer_column *)

\* the keys of cols_lower, by column position
LowerCols(cols) == [i \in 1..Len(cols) |-> Lower(cols[i])]

\* cols_lower[k]: a later column of the same lowered name overwrites an earlier
DictValue(cols, k) ==
  LET lc == LowerCols(cols)
      at == {i \in 1..Len(cols) : lc[i] = k}
  IN  cols[CHOOSE i \in at : \A j \in at : j <= i]

InferColumn(cols, cands) ==
  LET lc == LowerCols(cols)
      RECURSIVE Loop(_)
      Loop(n) ==
        IF n > Len(cands) THEN None
        ELSE LET cl  == Lower(cands[n])
                 sub == {i \in 1..Len(cols) : Contains(lc[i], cl)}
             IN  IF \E i \in 1..Len(cols) : lc[i] = cl
                 THEN DictValue(cols, cl)
                 ELSE IF sub # {}
                      THEN DictValue(cols, lc[CHOOSE i \in sub : \A j \in sub : i <= j])
                      ELSE Loop(n + 1)
  IN  Loop(1)

-----------------------------------------------------------------------------
(* The inferencer's own runs: a table's headers and a candidate list *)

InferAlphabet == {"a", "A", "b"}

RECURSIVE StringsOfLen(_)
StringsOfLen(n) ==
  IF n = 0 THEN {""}
  ELSE {s \o c : s \in StringsOfLen(n - 1), c \in InferAlphabet}

StringsUpTo(n) == UNION {StringsOfLen(k) : k \in 1..n}

SeqsUpTo(S, n) == UNION {[1..k -> S] : k \in 0..n}

InferIdle ==
  /\ df_columns = <<>>
  /\ candidates = <<>>
  /\ guessed = None
  /\ inferPc = "idle"

\* a call of infer_column
InferCall ==
  /\ df_columns \in SeqsUpTo(StringsUpTo(MaxColLen), MaxCols)
  /\ candidates \in SeqsUpTo(StringsUpTo(MaxCandLen), MaxCands)
  /\ guessed = None
  /\ inferPc = "call"

CallInferColumn ==
  /\ inferPc = "call"
  /\ guessed' = InferColumn(df_columns, candidates)
  /\ inferPc' = "returned"
  /\ UNCHANGED <<df_columns, candidates, sundayVars, scriptVars>>

-----------------------------------------------------------------------------
(* most_recent_sunday *)

MinOrdinal == 1    \* date.min, 0001-01-01, a Monday

\* the days counted from Sunday = 0, as date.isoweekday() % 7 does
WeekdayFromSunday(o) == o % 7

\* date.weekday(): Monday = 0 ... Sunday = 6
Weekday(o) == (o + 6) % 7

SundayIdle ==
  /\ anchor = 0
  /\ d = 0
  /\ sundayPc = "idle"

\* a call of most_recent_sunday
SundayCall ==
  /\ anchor \in MinOrdinal..MaxOrdinal
  /\ d = anchor
  /\ sundayPc = "loop"

\* one turn of `while d.weekday() != 6: d -= timedelta(days=1)`
StepBack ==
  /\ sundayPc = "loop"
  /\ Weekday(d) # 6
  /\ IF d - 1 < MinOrdinal
     THEN sundayPc' = "OverflowError" /\ d' = d
     ELSE sundayPc' = "loop" /\ d' = d - 1
  /\ UNCHANGED <<anchor, inferVars, scriptVars>>

ReturnSunday ==
  /\ sundayPc = "loop"
  /\ Weekday(d) = 6
  /\ sundayPc' = "returned"
  /\ UNCHANGED <<anchor, d, inferVars, scriptVars>>

-----------------------------------------------------------------------------
(* Cells: whitespace, numbers, ordering *)

IdWidth == 4       \* the width of f"{i:04d}"

NaN == -1          \* np.nan, among coerced numbers (all others are >= 0)

IsSpace(c) == c \in {" ", "\t"}

RECURSIVE LStrip(_)
LStrip(s) ==
  IF Len(s) > 0 /\ IsSpace(CharAt(s, 1)) THEN LStrip(SubSeq(s, 2, Len(s))) ELSE s

RECURSIVE RStrip(_)
RStrip(s) ==
  IF Len(s) > 0 /\ IsSpace(CharAt(s, Len(s))) THEN RStrip(SubSeq(s, 1, Len(s) - 1)) ELSE s

\* str.strip()
Strip(s) == RStrip(LStrip(s))

RECURSIVE CollapseSpaces(_)
\* str.replace(r"\s+", " ", regex=True)
CollapseSpaces(s) ==
  IF Len(s) = 0 THEN ""
  ELSE IF IsSpace(CharAt(s, 1))
       THEN " " \o CollapseSpaces(LStrip(s))
       ELSE CharAt(s, 1) \o CollapseSpaces(SubSeq(s, 2, Len(s)))

\* .str.replace(r"\s+", " ", regex=True).str.strip()
Canonical(s) == Strip(CollapseSpaces(s))

DigitChars == "0123456789"

DigitPos == Positions(DigitChars)

IsDigits(s) == Len(s) > 0 /\ \A i \in 1..Len(s) : CharAt(s, i) \in DOMAIN DigitPos

RECURSIVE DigitsValue(_)
DigitsValue(s) ==
  IF Len(s) = 0 THEN 0
  ELSE 10 * DigitsValue(SubSeq(s, 1, Len(s) - 1))
       + (DigitPos[CharAt(s, Len(s))] - 1)

RECURSIVE RemoveCommas(_)
\* str.replace(",", "")
RemoveCommas(s) ==
  IF Len(s) = 0 THEN ""
  ELSE (IF CharAt(s, 1) = "," THEN "" ELSE CharAt(s, 1))
       \o RemoveCommas(SubSeq(s, 2, Len(s)))

\* to_num: float(str(x).replace(",", "")), np.nan when float() raises.  The
\* numerals modelled are the whole ones, "1234", "1234." and "1234.0", with
\* surrounding whitespace; any other text here is one float() refuses.
to_num(x) ==
  LET s   == Strip(RemoveCommas(x))
      dot == IndexOf(".", s)
      int == IF dot = 0 THEN s ELSE SubSeq(s, 1, dot - 1)
      fr  == IF dot = 0 THEN "" ELSE SubSeq(s, dot + 1, Len(s))
  IN  IF IsDigits(int) /\ \A i \in 1..Len(fr) : CharAt(fr, i) = "0"
      THEN DigitsValue(int)
      ELSE NaN

RECURSIVE Digits(_)
Digits(n) ==
  IF n < 10 THEN CharAt(DigitChars, n + 1)
  ELSE Digits(n \div 10) \o CharAt(DigitChars, (n % 10) + 1)

\* str() of a float: "20.0", "nan"
FloatStr(n) == IF n = NaN THEN "nan" ELSE Digits(n) \o ".0"

\* .fillna(0.0)
fillna0(n) == IF n = NaN THEN 0 ELSE n

RECURSIVE Zeros(_)
Zeros(k) == IF k <= 0 THEN "" ELSE "0" \o Zeros(k - 1)

\* f"{n:0wd}" and strftime's zero-padded fields: at least w digits
ZeroPad(n, w) == Zeros(w - Len(Digits(n))) \o Digits(n)

\* the characters of the modelled cells, in code-point order
CodePoints == "\t #(),./0123456789ABCDEFGHIJKLMNOPQRSTUVWXYZ_abcdefghijklmnopqrstuvwxyz"

CodePos == Positions(CodePoints)

Ord(c) == CodePos[c]

RECURSIVE StrLess(_, _)
\* Python's a < b on strings
StrLess(a, b) ==
  IF Len(b) = 0 THEN FALSE
  ELSE IF Len(a) = 0 THEN TRUE
  ELSE IF Ord(CharAt(a, 1)) # Ord(CharAt(b, 1))
       THEN Ord(CharAt(a, 1)) < Ord(CharAt(b, 1))
       ELSE StrLess(SubSeq(a, 2, Len(a)), SubSeq(b, 2, Len(b)))

\* a row with column c set to v (a new column, or an overwritten one)
Put(row, c, v) == (c :> v) @@ row

Range(s) == {s[i] : i \in 1..Len(s)}

\* pandas isna() of a cell
isna(x) == x = "nan"

-----------------------------------------------------------------------------
(* The uploads *)

PayrollLayout == <<" Client", "Employee Name", "First Name", "Last Name",
                   "Pay Rate", "Reg H (e)", "OT H (e)", "DT H (e)">>

PRow(client, full, first, last, rate, reg, ot, dt) ==
  (" Client" :> client) @@ ("Employee Name" :> full) @@ ("First Name" :> first)
  @@ ("Last Name" :> last) @@ ("Pay Rate" :> rate) @@ ("Reg H (e)" :> reg)
  @@ ("OT H (e)" :> ot) @@ ("DT H (e)" :> dt)

\* the payroll rows the uploads are made of
PayrollRows == {
  PRow("UCLA Extension", "Jane Doe",    "Jane",  "Doe",  "20",    "3", "1",   "0"),
  PRow("ucla",           " Jane   Doe", "Jane ", " Doe", "20.0",  "4", "abc", "nan"),
  PRow("x Ucla",         "Jane Doe",    "Jane",  "Doe",  "TBD",   "2", "0",   "1,000"),
  PRow("UCLA",           "Jane Doe",    "Jane",  "Doe",  "9",     "1", "1",   "1"),
  PRow("UCLA",           "Al Roe",      "Al",    "Roe",  "1,025", "5", "0",   "0"),
  PRow("UCSB",           "Al Roe",      "Al",    "Roe",  "25",    "5", "0",   "0") }

AssignLayout == <<"Employee Name", "Pay Rate", "Assign No">>

ARow(name, rate, no) ==
  ("Employee Name" :> name) @@ ("Pay Rate" :> rate) @@ ("Assign No" :> no)

\* the roster rows the uploads are made of
AssignRows == {
  ARow("Jane Doe",    "20",  "A100"),
  ARow(" Jane  Doe ", "20",  "A200"),
  ARow("Jane Doe",    "20",  "nan"),
  ARow("Jane Doe",    "n/a", "A400") }

Table(columns, rows) == [kind |-> "table", columns |-> columns, rows |-> rows]

NoUpload   == [kind |-> "none", columns |-> <<>>, rows |-> <<>>]
Unreadable == [kind |-> "unreadable", columns |-> <<>>, rows |-> <<>>]
\* a sheet with no header row at all
EmptySheet == Table(<<>>, <<>>)

\* a payroll whose name header is blank after the strip (and no other header
\* holds "name"), and whose second row has a blank client cell
BlankHeaderPayroll ==
  Table(<<"Client", " ", "Pay Rate", "Reg H (e)", "OT H (e)", "DT H (e)">>,
        << ("Client" :> "UCLA") @@ (" " :> "Jane Doe") @@ ("Pay Rate" :> "20")
           @@ ("Reg H (e)" :> "3") @@ ("OT H (e)" :> "1") @@ ("DT H (e)" :> "0"),
           ("Client" :> "nan") @@ (" " :> "Al Roe") @@ ("Pay Rate" :> "25")
           @@ ("Reg H (e)" :> "6") @@ ("OT H (e)" :> "0") @@ ("DT H (e)" :> "0") >>)

\* a roster with no assignment-number header
NoAssignColumn ==
  Table(<<"Employee Name", "Pay Rate">>,
        << ("Employee Name" :> "Jane Doe") @@ ("Pay Rate" :> "20") >>)

PayrollFiles ==
  {Table(PayrollLayout, rows) : rows \in SeqsUpTo(PayrollRows, MaxPayrollRows)}
  \cup {NoUpload, Unreadable, EmptySheet, BlankHeaderPayroll}

AssignFiles ==
  {Table(AssignLayout, rows) : rows \in SeqsUpTo(AssignRows, MaxAssignRows)}
  \cup {NoUpload, Unreadable, EmptySheet, NoAssignColumn}

\* the week-ending date the operator picks in a run of the whole script
WeekDates == {[year |-> 2024, month |-> 6, day |-> 9]}

\* strftime("%m/%d/%Y")
we_str(dt) ==
  ZeroPad(dt.month, 2) \o "/" \o ZeroPad(dt.day, 2) \o "/" \o ZeroPad(dt.year, 4)

\* strftime("%Y%m%d")
we_id_prefix(dt) == ZeroPad(dt.year, 4) \o ZeroPad(dt.month, 2) \o ZeroPad(dt.day, 2)

NoFrame   == [columns |-> <<>>, rows |-> <<>>]
NoMapping == [client_col |-> None, reg_col |-> None, ot_col |-> None, dt_col |-> None,
              payrate_col |-> None, first_col |-> None, last_col |-> None,
              full_name_col |-> None, assign_name_col |-> None,
              assign_rate_col |-> None, assign_no_col |-> None]
NoDate    == [year |-> 0, month |-> 0, day |-> 0]
NoDownload == [data |-> <<>>, file_name |-> ""]

\* the names of the script before its first statement
Unset ==
  /\ payroll_df = NoFrame /\ assign_df = NoFrame
  /\ mapping = NoMapping /\ custom_we = NoDate
  /\ payroll_ucla = NoFrame /\ summary = <<>> /\ assign_df_slim = <<>>
  /\ joined = NoFrame /\ final = NoFrame /\ unmatched = NoFrame
  /\ out_buf = <<>> /\ download = NoDownload
  /\ stages = <<>>

ScriptIdle ==
  /\ pc = "idle"
  /\ payroll_file = NoUpload /\ assign_file = NoUpload
  /\ Unset

\* a run of the script on two uploads
ScriptRun ==
  /\ pc = "uploads"
  /\ payroll_file \in PayrollFiles
  /\ assign_file \in AssignFiles
  /\ Unset

-----------------------------------------------------------------------------
(* The script, statement group by statement group *)

\* an error that is caught and passed over
HaltPassedOver(stage) ==
  /\ pc' = "export"
  /\ stages' = Append(stages, stage)


Halt(stage) ==
  /\ pc' = "halted"
  /\ stages' = Append(stages, stage)

Done(stage, next) ==
  /\ pc' = next
  /\ stages' = Append(stages, stage)

\* lines 98-100: st.stop() until both files are uploaded
CheckUploads ==
  /\ pc = "uploads"
  /\ IF payroll_file = NoUpload \/ assign_file = NoUpload
     THEN Halt("st.info: upload both files")
     ELSE Done("uploads", "read")
  /\ UNCHANGED <<inputVars, frameVars, outVars, inferVars, sundayVars>>

\* read_any_table: the parsed table, its headers stripped
read_any_table(file) ==
  LET raw == file.columns
  IN  [columns |-> [i \in 1..Len(raw) |-> Strip(raw[i])],
       rows    |-> [r \in 1..Len(file.rows) |->
                      [k \in {Strip(raw[i]) : i \in 1..Len(raw)} |->
                         file.rows[r][CHOOSE c \in Range(raw) : Strip(c) = k]]]]

\* lines 103-108
ReadFiles ==
  /\ pc = "read"
  /\ IF payroll_file.kind = "unreadable" \/ assign_file.kind = "unreadable"
     THEN /\ Halt("st.error: failed to read")
          /\ UNCHANGED <<payroll_df, assign_df>>
     ELSE /\ payroll_df' = read_any_table(payroll_file)
          /\ assign_df' = read_any_table(assign_file)
          /\ Done("read", "mapping")
  /\ UNCHANGED <<inputVars, mapping, custom_we, payroll_ucla, summary, assign_df_slim,
                 joined, final, unmatched, outVars, inferVars, sundayVars>>

\* Python's truth of an optional header: None and "" are false
Truthy(c) == c # None /\ c # ""

\* st.sidebar.selectbox(label, columns, index=...) with the operator leaving
\* the preselected entry: the suggestion when it is a column, else the first
selectbox(columns, suggested) ==
  IF Len(columns) = 0 THEN None
  ELSE IF suggested \in Range(columns) THEN suggested
  ELSE columns[1]

\* what the operator may select as the full-name column: the preselected
\* entry, or a column whose header is blank
FullNamePicks(columns, suggested) ==
  {selectbox(columns, suggested)} \cup {c \in Range(columns) : c = ""}

\* lines 118-129: the suggested column of every role
Suggested(pcols, acols) ==
  [client_col  |-> InferColumn(pcols, <<"client", "client name", "venue", "customer">>),
   reg_col     |-> InferColumn(pcols, <<"Reg H (e)", "Reg H", "reg hours", "regular hours">>),
   ot_col      |-> InferColumn(pcols, <<"OT H (e)", "OT H", "ot hours", "overtime hours">>),
   dt_col      |-> InferColumn(pcols, <<"DT H (e)", "DT H", "doubletime hours", "dt hours">>),
   payrate_col |-> InferColumn(pcols, <<"pay rate", "rate", "payrate", "pay_rate">>),
   first_col   |-> InferColumn(pcols, <<"first name", "firstname", "emp first name">>),
   last_col    |-> InferColumn(pcols, <<"last name", "lastname", "emp last name">>),
   full_name_col   |-> InferColumn(pcols, <<"employee name", "name", "emp name">>),
   assign_name_col |-> InferColumn(acols, <<"employee name", "name", "firstname lastname",
                                            "employee">>),
   assign_rate_col |-> InferColumn(acols, <<"pay rate", "rate", "payrate">>),
   assign_no_col   |-> InferColumn(acols, <<"assign no", "assignment #", "assignment",
                                            "assign #", "assignment number">>)]

\* the headers a read upload can have
HeadersOf(files) == {read_any_table(f).columns : f \in files}

\* Suggested, computed once for each pair of header rows
SuggestedFor ==
  [pcols \in HeadersOf(PayrollFiles), acols \in HeadersOf(AssignFiles) |->
     Suggested(pcols, acols)]

\* lines 131-148: the sidebar, given the name source and the full-name column
\* the operator selects
Sidebar(pcols, acols, s, name_mode, picked) ==
  [client_col  |-> selectbox(pcols, s.client_col),
   reg_col     |-> selectbox(pcols, s.reg_col),
   ot_col      |-> selectbox(pcols, s.ot_col),
   dt_col      |-> selectbox(pcols, s.dt_col),
   payrate_col |-> selectbox(pcols, s.payrate_col),
   first_col   |-> IF name_mode = "Full name column" THEN None
                   ELSE selectbox(pcols, s.first_col),
   last_col    |-> IF name_mode = "Full name column" THEN None
                   ELSE selectbox(pcols, s.last_col),
   full_name_col   |-> IF name_mode = "Full name column" THEN picked ELSE None,
   assign_name_col |-> selectbox(acols, s.assign_name_col),
   assign_rate_col |-> selectbox(acols, s.assign_rate_col),
   assign_no_col   |-> selectbox(acols, s.assign_no_col)]

\* lines 118-154: the suggestions, the sidebar, the week-ending date
MapColumns ==
  /\ pc = "mapping"
  /\ LET pcols == payroll_df.columns
         acols == assign_df.columns
         s     == SuggestedFor[pcols, acols]
     IN  \E name_mode \in {"Full name column", "First + Last"},
            picked \in FullNamePicks(pcols, s.full_name_col),
            dt \in WeekDates :
           /\ mapping' = Sidebar(pcols, acols, s, name_mode, picked)
           /\ custom_we' = dt
  /\ Done("mapping", "filter")
  /\ UNCHANGED <<inputVars, payroll_df, assign_df, payroll_ucla, summary, assign_df_slim,
                 joined, final, unmatched, outVars, inferVars, sundayVars>>

\* contains("UCLA") with case=True
mask_ucla_cased(cell) == Contains(cell, "UCLA")

\* mask_ucla: .str.contains("UCLA", case=False, na=False) of the astype(str) cell
mask_ucla(cell) == Contains(Lower(cell), Lower("UCLA"))

\* lines 161-163; a client_col that is no column is a KeyError
FilterUCLA ==
  /\ pc = "filter"
  /\ IF mapping.client_col \notin Range(payroll_df.columns)
     THEN /\ Halt("KeyError: client column")
          /\ UNCHANGED payroll_ucla
     ELSE /\ payroll_ucla' =
               [columns |-> payroll_df.columns,
                rows    |-> LET keep(row) == mask_ucla(row[mapping.client_col])
                            IN  SelectSeq(payroll_df.rows, keep)]
          /\ Done("filter", "name")
  /\ UNCHANGED <<inputVars, payroll_df, assign_df, mapping, custom_we, summary,
                 assign_df_slim, joined, final, unmatched, outVars, inferVars, sundayVars>>

\* normalize_name_parts: which branch supplies the names
NameSource(columns, first_col, last_col, full_col) ==
  IF Truthy(full_col) /\ full_col \in Range(columns) THEN "full"
  ELSE IF /\ Truthy(first_col) /\ Truthy(last_col)
          /\ first_col \in Range(columns) /\ last_col \in Range(columns)
       THEN "first last"
  ELSE IF Truthy(InferColumn(columns, <<"employee name", "name">>)) THEN "guessed"
  ELSE "ValueError"

\* normalize_name_parts: the name of one row (the source is not "ValueError")
normalize_name_parts(row, columns, first_col, last_col, full_col) ==
  LET src   == NameSource(columns, first_col, last_col, full_col)
      names == CASE src = "full" -> row[full_col]
                 [] src = "first last" ->
                      Strip(row[first_col]) \o " " \o Strip(row[last_col])
                 [] OTHER -> row[InferColumn(columns, <<"employee name", "name">>)]
  IN  Canonical(names)

\* with column c added to the headers when it is new
WithColumn(columns, c) ==
  IF c \in Range(columns) THEN columns ELSE Append(columns, c)

\* line 166
BuildName ==
  /\ pc = "name"
  /\ LET m == mapping
         cols == payroll_ucla.columns
     IN  IF NameSource(cols, m.first_col, m.last_col, m.full_name_col) = "ValueError"
         THEN /\ Halt("ValueError: employee name columns")
              /\ UNCHANGED payroll_ucla
         ELSE /\ payroll_ucla' =
                   [columns |-> WithColumn(cols, "Employee Name"),
                    rows    |-> [i \in 1..Len(payroll_ucla.rows) |->
                                   Put(payroll_ucla.rows[i], "Employee Name",
                                       normalize_name_parts(payroll_ucla.rows[i], cols,
                                          m.first_col, m.last_col, m.full_name_col))]]
              /\ Done("name", "hours")
  /\ UNCHANGED <<inputVars, payroll_df, assign_df, mapping, custom_we, summary,
                 assign_df_slim, joined, final, unmatched, outVars, inferVars, sundayVars>>

\* the sort order with na_position="first"
KeyLessNaNFirst(a, b) ==
  \/ StrLess(a["Employee Name"], b["Employee Name"])
  \/ /\ a["Employee Name"] = b["Employee Name"]
     /\ b["Pay Rate"] # NaN
     /\ (a["Pay Rate"] = NaN \/ a["Pay Rate"] < b["Pay Rate"])

\* sort order of a (name, rate) key: by name, then by rate, NaN last
KeyLess(a, b) ==
  \/ StrLess(a["Employee Name"], b["Employee Name"])
  \/ /\ a["Employee Name"] = b["Employee Name"]
     /\ a["Pay Rate"] # NaN
     /\ (b["Pay Rate"] = NaN \/ a["Pay Rate"] < b["Pay Rate"])

\* x put behind every row of the sorted s that does not come after it
InsertSorted(s, x) ==
  LET after == {i \in 1..Len(s) : KeyLess(x, s[i])}
      at    == IF after = {} THEN Len(s) + 1
               ELSE CHOOSE i \in after : \A j \in after : i <= j
  IN  SubSeq(s, 1, at - 1) \o <<x>> \o SubSeq(s, at, Len(s))

RECURSIVE SortByKey(_)
\* a stable sort by ["Employee Name", "Pay Rate"]
SortByKey(s) ==
  IF Len(s) = 0 THEN <<>>
  ELSE InsertSorted(SortByKey(SubSeq(s, 1, Len(s) - 1)), s[Len(s)])

RECURSIVE Accumulate(_, _)
\* the groups of rows by (Employee Name, Pay Rate), NaN a key of its own
\* (dropna=False), each with the sum of its Hours
Accumulate(rows, groups) ==
  IF Len(rows) = 0 THEN groups
  ELSE LET r    == rows[1]
           same == {g \in 1..Len(groups) :
                      /\ groups[g]["Employee Name"] = r["Employee Name"]
                      /\ groups[g]["Pay Rate"] = r["Pay Rate"]}
           rec  == ("Employee Name" :> r["Employee Name"])
                   @@ ("Pay Rate" :> r["Pay Rate"]) @@ ("Hours" :> r["Hours"])
       IN  Accumulate(SubSeq(rows, 2, Len(rows)),
             IF same = {} THEN Append(groups, rec)
             ELSE LET g == CHOOSE x \in same : TRUE
                  IN  [groups EXCEPT ![g] =
                         Put(groups[g], "Hours", groups[g]["Hours"] + r["Hours"])])

\* the groupby without dropna=False: rows with a NaN key are dropped
GroupBySumDropNa(rows) ==
  LET keyed(row) == row["Pay Rate"] # NaN
  IN  SortByKey(Accumulate(SelectSeq(rows, keyed), <<>>))

\* .groupby(["Employee Name", "Pay Rate"], dropna=False, as_index=False)["Hours"].sum()
GroupBySum(rows) == SortByKey(Accumulate(rows, <<>>))

\* lines 179-187 on one row
CoerceRow(row, m) ==
  LET r1 == Put(row, m.reg_col, fillna0(to_num(row[m.reg_col])))
      r2 == Put(r1, m.ot_col, fillna0(to_num(r1[m.ot_col])))
      r3 == Put(r2, m.dt_col, fillna0(to_num(r2[m.dt_col])))
      r4 == Put(r3, "Pay Rate", to_num(r3[m.payrate_col]))
  IN  Put(r4, "Hours", r4[m.reg_col] + r4[m.ot_col] + r4[m.dt_col])

\* lines 169-192
SumHours ==
  /\ pc = "hours"
  /\ LET m == mapping
         cols == Range(payroll_ucla.columns)
     IN  IF {m.reg_col, m.ot_col, m.dt_col} \subseteq cols /\ m.payrate_col \in cols
         THEN /\ payroll_ucla' =
                   [columns |-> WithColumn(WithColumn(payroll_ucla.columns, "Pay Rate"),
                                           "Hours"),
                    rows    |-> [i \in 1..Len(payroll_ucla.rows) |->
                                   CoerceRow(payroll_ucla.rows[i], m)]]
              /\ summary' = GroupBySum(payroll_ucla'.rows)
              /\ Done("hours", "roster")
         ELSE /\ Halt("ValueError: hours or pay rate column")
              /\ UNCHANGED <<payroll_ucla, summary>>
  /\ UNCHANGED <<inputVars, payroll_df, assign_df, mapping, custom_we,
                 assign_df_slim, joined, final, unmatched, outVars, inferVars, sundayVars>>

RECURSIVE drop_duplicates(_)
\* DataFrame.drop_duplicates(): the first of equal rows stays
drop_duplicates(s) ==
  IF Len(s) = 0 THEN <<>>
  ELSE LET front == drop_duplicates(SubSeq(s, 1, Len(s) - 1))
       IN  IF s[Len(s)] \in Range(front) THEN front ELSE Append(front, s[Len(s)])

\* lines 196-198 on one roster row
SlimRow(row, m) ==
  ("_name" :> Canonical(row[m.assign_name_col]))
  @@ ("_rate" :> to_num(row[m.assign_rate_col]))
  @@ (m.assign_no_col :> row[m.assign_no_col])

\* lines 195-198; a roster column that is no column is a KeyError
PrepareAssign ==
  /\ pc = "roster"
  /\ LET m == mapping
     IN  IF {m.assign_name_col, m.assign_rate_col, m.assign_no_col}
              \subseteq Range(assign_df.columns)
         THEN /\ assign_df_slim' =
                   drop_duplicates([i \in 1..Len(assign_df.rows) |->
                                      SlimRow(assign_df.rows[i], m)])
              /\ Done("roster", "join")
         ELSE /\ Halt("KeyError: roster column")
              /\ UNCHANGED assign_df_slim
  /\ UNCHANGED <<inputVars, payroll_df, assign_df, mapping, custom_we, payroll_ucla,
                 summary, joined, final, unmatched, outVars, inferVars, sundayVars>>

\* lines 201-202 on one summary row
KeyedRow(row) ==
  Put(Put(row, "_name", Canonical(row["Employee Name"])),
      "_rate", to_num(FloatStr(row["Pay Rate"])))

\* the header the roster's number column has after the merge and the rename:
\* a header the summary has too gets the merge's suffix and is not renamed
MergedNoColumn(no_col) ==
  IF no_col \in {"Employee Name", "Pay Rate", "Hours"} THEN no_col \o "_y"
  ELSE "Assignment #"

\* the headers of the summary after the merge
MergedLeftColumns(no_col) ==
  [i \in 1..5 |->
     LET c == <<"Employee Name", "Pay Rate", "Hours", "_name", "_rate">>[i]
     IN  IF c = no_col THEN c \o "_x" ELSE c]

\* one merged row: the summary row, the roster's number (NaN when no roster
\* row matched), lines 211-213
MergedRow(left, number, no_col, dt) ==
  LET cols == MergedLeftColumns(no_col)
      base == [c \in Range(cols) |->
                 left[CHOOSE k \in DOMAIN left : c = k \/ c = k \o "_x"]]
  IN  ("Work Date" :> we_str(dt)) @@ ("Weekending Date" :> we_str(dt))
      @@ (MergedNoColumn(no_col) :> number) @@ base

RECURSIVE merge_left(_, _, _, _)
\* summary.merge(assign_df_slim, how="left", on ["_name", "_rate"]): the left
\* rows in their order, each once per right row of its key in the right's
\* order (pandas matches a NaN key with a NaN key), once with NaN when none
merge_left(left, right, no_col, dt) ==
  IF Len(left) = 0 THEN <<>>
  ELSE LET l == left[1]
           match(r) == r["_name"] = l["_name"] /\ r["_rate"] = l["_rate"]
           hits == SelectSeq(right, match)
           out  == IF Len(hits) = 0 THEN << MergedRow(l, "nan", no_col, dt) >>
                   ELSE [i \in 1..Len(hits) |-> MergedRow(l, hits[i][no_col], no_col, dt)]
       IN  out \o merge_left(SubSeq(left, 2, Len(left)), right, no_col, dt)

\* lines 201-213
Join ==
  /\ pc = "join"
  /\ LET no_col == mapping.assign_no_col
     IN  joined' =
           [columns |-> MergedLeftColumns(no_col)
                        \o <<MergedNoColumn(no_col), "Work Date", "Weekending Date">>,
            rows    |-> merge_left([i \in 1..Len(summary) |-> KeyedRow(summary[i])],
                                   assign_df_slim, no_col, custom_we)]
  /\ Done("join", "sort")
  /\ UNCHANGED <<inputVars, payroll_df, assign_df, mapping, custom_we, payroll_ucla,
                 summary, assign_df_slim, final, unmatched, outVars, inferVars,
                 sundayVars>>

\* line 216; a sort key that is no column is a KeyError
SortJoined ==
  /\ pc = "sort"
  /\ IF {"Employee Name", "Pay Rate"} \subseteq Range(joined.columns)
     THEN /\ joined' = [joined EXCEPT !.rows = SortByKey(joined.rows)]
          /\ Done("sort", "ids")
     ELSE /\ Halt("KeyError: sort column")
          /\ UNCHANGED joined
  /\ UNCHANGED <<inputVars, payroll_df, assign_df, mapping, custom_we, payroll_ucla,
                 summary, assign_df_slim, final, unmatched, outVars, inferVars,
                 sundayVars>>

\* the IDs counted from 0, range(len(joined))
LineIdFromZero(dt, i) == we_id_prefix(dt) \o ZeroPad(i - 1, IdWidth)

\* f"{we_id_prefix}{i:04d}"
LineId(dt, i) == we_id_prefix(dt) \o ZeroPad(i, IdWidth)

\* line 217
AssignLineIds ==
  /\ pc = "ids"
  /\ joined' =
       [columns |-> WithColumn(joined.columns, "Unique Line ID"),
        rows    |-> [i \in 1..Len(joined.rows) |->
                       Put(joined.rows[i], "Unique Line ID", LineId(custom_we, i))]]
  /\ Done("ids", "final")
  /\ UNCHANGED <<inputVars, payroll_df, assign_df, mapping, custom_we, payroll_ucla,
                 summary, assign_df_slim, final, unmatched, outVars, inferVars,
                 sundayVars>>

final_cols == <<"Assignment #", "Employee Name", "Pay Rate", "Work Date",
                "Weekending Date", "Hours", "Unique Line ID">>

\* df[columns]: the rows cut to the columns
Project(rows, columns) ==
  [i \in 1..Len(rows) |-> [c \in Range(columns) |-> rows[i][c]]]

\* lines 219-226; a final column that is no column is a KeyError
BuildFinal ==
  /\ pc = "final"
  /\ IF Range(final_cols) \subseteq Range(joined.columns)
     THEN /\ final' = [columns |-> final_cols, rows |-> Project(joined.rows, final_cols)]
          /\ Done("final", "unmatched")
     ELSE /\ Halt("KeyError: final column")
          /\ UNCHANGED final
  /\ UNCHANGED <<inputVars, payroll_df, assign_df, mapping, custom_we, payroll_ucla,
                 summary, assign_df_slim, joined, unmatched, outVars, inferVars,
                 sundayVars>>

unmatched_cols == <<"Employee Name", "Pay Rate", "Hours">>

\* joined[joined["Assignment #"].isna()][["Employee Name", "Pay Rate", "Hours"]]
UnmatchedOf(rows) ==
  LET blank(row) == isna(row["Assignment #"])
  IN  Project(SelectSeq(rows, blank), unmatched_cols)

\* lines 229-232
CollectUnmatched ==
  /\ pc = "unmatched"
  /\ unmatched' = [columns |-> unmatched_cols, rows |-> UnmatchedOf(joined.rows)]
  /\ Done("unmatched", "export")
  /\ UNCHANGED <<inputVars, payroll_df, assign_df, mapping, custom_we, payroll_ucla,
                 summary, assign_df_slim, joined, final, outVars, inferVars, sundayVars>>

Sheet(name, frame) == [sheet_name |-> name, columns |-> frame.columns, rows |-> frame.rows]

\* both sheets written whether or not a row is unmatched
WorkbookBothSheets(fin, unm) == <<Sheet("Export", fin), Sheet("Unmatched", unm)>>

\* the sheets the ExcelWriter block writes, lines 236-239
Workbook(fin, unm) ==
  <<Sheet("Export", fin)>>
  \o (IF Len(unm.rows) # 0 THEN <<Sheet("Unmatched", unm)>> ELSE <<>>)

\* lines 235-246
Export ==
  /\ pc = "export"
  /\ out_buf' = Workbook(final, unmatched)
  /\ download' = [data      |-> out_buf',
                  file_name |-> "ucla_assignment_export_" \o we_id_prefix(custom_we)
                                \o ".xlsx"]
  /\ Done("export", "done")
  /\ UNCHANGED <<inputVars, frameVars, inferVars, sundayVars>>

-----------------------------------------------------------------------------
(* The script at line 217, on a joined table of many rows: the run on one   *)
(* UCLA payroll row whose (name, rate) key the roster lists under n         *)
(* different assignment numbers, so that the join fans out to n rows        *)

RECURSIVE Pow10(_)
Pow10(k) == IF k = 0 THEN 1 ELSE 10 * Pow10(k - 1)

\* the numbers of rows: a few, and the first number of more than IdWidth digits
IdRowCounts == (1..MaxIdRows) \cup {Pow10(IdWidth)}

\* the week-ending dates the operator picks
IdDates == {[year |-> y, month |-> m, day |-> dd] :
              y \in {2024, 2026}, m \in {1, 11}, dd \in {1, 28}}

FanOutPayroll ==
  Table(PayrollLayout,
        << PRow("UCLA Extension", "Jane Doe", "Jane", "Doe", "20", "3", "1", "0") >>)

\* the i-th roster row
FanOutRow(i) == ARow("Jane Doe", "20", "A" \o Digits(i))

FanOutRoster(n) == Table(AssignLayout, [i \in 1..n |-> FanOutRow(i)])

\* what the script makes of the payroll, lines 104-192, the operator leaving
\* the sidebar as preselected
FanOutRead == read_any_table(FanOutPayroll)

FanOutMapping ==
  Sidebar(FanOutRead.columns, AssignLayout, Suggested(FanOutRead.columns, AssignLayout),
          "Full name column", selectbox(FanOutRead.columns, "Employee Name"))

FanOutUcla ==
  LET m   == FanOutMapping
      row == FanOutRead.rows[1]
  IN  [columns |-> WithColumn(WithColumn(FanOutRead.columns, "Pay Rate"), "Hours"),
       rows    |-> << CoerceRow(Put(row, "Employee Name",
                                    normalize_name_parts(row, FanOutRead.columns,
                                       m.first_col, m.last_col, m.full_name_col)), m) >>]

FanOutSummary == GroupBySum(FanOutUcla.rows)

FanOutKeyed == KeyedRow(FanOutSummary[1])

\* the state line 216 leaves on these uploads: the roster's headers need no
\* strip, its rows differ, so drop_duplicates keeps them all, and the joined
\* rows share one key, so the stable sort keeps their order
AfterSort(n, dt) ==
  /\ payroll_file = FanOutPayroll
  /\ assign_file = FanOutRoster(n)
  /\ payroll_df = FanOutRead
  /\ assign_df = [columns |-> AssignLayout, rows |-> [i \in 1..n |-> FanOutRow(i)]]
  /\ mapping = FanOutMapping
  /\ custom_we = dt
  /\ payroll_ucla = FanOutUcla
  /\ summary = FanOutSummary
  /\ assign_df_slim = [i \in 1..n |-> SlimRow(FanOutRow(i), FanOutMapping)]
  /\ joined =
       [columns |-> MergedLeftColumns(FanOutMapping.assign_no_col)
                    \o <<MergedNoColumn(FanOutMapping.assign_no_col), "Work Date",
                         "Weekending Date">>,
        rows    |-> [i \in 1..n |->
                       MergedRow(FanOutKeyed, FanOutRow(i)[FanOutMapping.assign_no_col],
                                 FanOutMapping.assign_no_col, dt)]]
  /\ final = NoFrame /\ unmatched = NoFrame
  /\ out_buf = <<>> /\ download = NoDownload
  /\ stages = <<"uploads", "read", "mapping", "filter", "name", "hours",
                "roster", "join", "sort">>
  /\ pc = "ids"

-----------------------------------------------------------------------------
(* Specifications *)

InitIds ==
  /\ \E n \in IdRowCounts, dt \in IdDates : AfterSort(n, dt)
  /\ InferIdle
  /\ SundayIdle

NextIds == AssignLineIds

SpecIds == InitIds /\ [][NextIds]_vars

InitInfer == InferCall /\ SundayIdle /\ ScriptIdle

NextInfer == CallInferColumn

SpecInfer == InitInfer /\ [][NextInfer]_vars

Init == ScriptRun /\ InferIdle /\ SundayIdle

Next ==
  \/ CheckUploads \/ ReadFiles \/ MapColumns \/ FilterUCLA \/ BuildName \/ SumHours
  \/ PrepareAssign \/ Join \/ SortJoined \/ AssignLineIds \/ BuildFinal
  \/ CollectUnmatched \/ Export

Spec == Init /\ [][Next]_vars

InitSunday == SundayCall /\ InferIdle /\ ScriptIdle

NextSunday == StepBack \/ ReturnSunday

SpecSunday ==
  InitSunday /\ [][NextSunday]_vars /\ WF_vars(NextSunday)

-----------------------------------------------------------------------------
(* C1: infer_column checks exact case-insensitive matches across all        *)
(* candidates before any substring fallback: the result is the column       *)
(* matched exactly by the earliest candidate that matches one exactly; a    *)
(* substring match is returned only when no candidate matches exactly, and  *)
(* None only when no candidate matches by either rule.                      *)

ExactCands == {n \in 1..Len(candidates) :
                 \E i \in 1..Len(df_columns) : Lower(df_columns[i]) = Lower(candidates[n])}

SubCands == {n \in 1..Len(candidates) :
               \E i \in 1..Len(df_columns) :
                  Contains(Lower(df_columns[i]), Lower(candidates[n]))}

C1_ExactBeforeSubstring ==
  inferPc = "returned" =>
    /\ ExactCands # {} =>
         LET n == CHOOSE m \in ExactCands : \A k \in ExactCands : m <= k
         IN  guessed # None /\ Lower(guessed) = Lower(candidates[n])
    /\ (ExactCands = {} /\ guessed # None) =>
         \E n \in SubCands : Contains(Lower(guessed), Lower(candidates[n]))
    /\ guessed = None <=> SubCands = {}

-----------------------------------------------------------------------------
(* What the claims speak of *)

StageOrder == <<"uploads", "read", "mapping", "filter", "name", "hours", "roster",
                "join", "sort", "ids", "final", "unmatched", "export">>

\* the stages the script has completed
Past(stage) == stage \in Range(stages)

\* the stage is the one the script has just completed
JustDone(stage) == Len(stages) > 0 /\ stages[Len(stages)] = stage

Max(a, b) == IF a >= b THEN a ELSE b

\* the comparison of two rates as floats: a missing rate (NaN) is neither equal
\* to nor less than any rate
NumEq(a, b)  == a # NaN /\ b # NaN /\ a = b
NumLeq(a, b) == a # NaN /\ b # NaN /\ a <= b

RECURSIVE SumOver(_, _)
\* the sum of f over the finite set S
SumOver(S, f) ==
  IF S = {} THEN 0
  ELSE LET x == CHOOSE y \in S : TRUE IN f[x] + SumOver(S \ {x}, f)

\* "contains UCLA as a substring, case-insensitively", character by character
HoldsUCLA(cell) ==
  \E p \in 1..(Len(cell) - 3) :
    /\ CharAt(cell, p) \in {"U", "u"}
    /\ CharAt(cell, p + 1) \in {"C", "c"}
    /\ CharAt(cell, p + 2) \in {"L", "l"}
    /\ CharAt(cell, p + 3) \in {"A", "a"}

\* the payroll rows the filter is to keep, by position
KeptRows ==
  {i \in 1..Len(payroll_df.rows) : HoldsUCLA(payroll_df.rows[i][mapping.client_col])}

\* the (Employee Name, Pay Rate) key and the hours of payroll row i, from its
\* cells as read
RawName(i) ==
  normalize_name_parts(payroll_df.rows[i], payroll_df.columns, mapping.first_col,
                       mapping.last_col, mapping.full_name_col)
RawRate(i) == to_num(payroll_df.rows[i][mapping.payrate_col])
RawKey(i) == <<RawName(i), RawRate(i)>>
RawHour(cell) == IF to_num(cell) = NaN THEN 0 ELSE to_num(cell)
RawHours(i) ==
  RawHour(payroll_df.rows[i][mapping.reg_col])
  + RawHour(payroll_df.rows[i][mapping.ot_col])
  + RawHour(payroll_df.rows[i][mapping.dt_col])

KeyOf(row) == <<row["Employee Name"], row["Pay Rate"]>>

\* the roster entries: the distinct (name, rate, number) triples
RosterEntries ==
  {<<Canonical(assign_df.rows[i][mapping.assign_name_col]),
     to_num(assign_df.rows[i][mapping.assign_rate_col]),
     assign_df.rows[i][mapping.assign_no_col]>> : i \in 1..Len(assign_df.rows)}

\* the roster entries that share the key of the aggregated record r: the same
\* normalized name, and a rate equal to r's as floats are equal
EntriesOf(r) ==
  {e \in RosterEntries : e[1] = Canonical(r["Employee Name"]) /\ NumEq(e[2], r["Pay Rate"])}

\* the joined rows that carry the aggregated record r, by position
JoinedOf(r) ==
  {i \in 1..Len(joined.rows) :
     /\ KeyOf(joined.rows[i]) = KeyOf(r)
     /\ joined.rows[i]["Hours"] = r["Hours"]}

\* the join gave the joined table its Assignment # column
Joined == Past("join") /\ "Assignment #" \in Range(joined.columns)

-----------------------------------------------------------------------------
(* C2: after the join a row is in the Unmatched report if and only if no    *)
(* roster entry shares its (normalized name, pay rate) key, also when the   *)
(* matching roster entry's assignment number is blank.                      *)

InUnmatched(r) ==
  \E i \in 1..Len(unmatched.rows) :
    /\ KeyOf(unmatched.rows[i]) = KeyOf(r)
    /\ unmatched.rows[i]["Hours"] = r["Hours"]

C2_UnmatchedIffNoRosterKey ==
  Past("unmatched") =>
    \A s \in 1..Len(summary) : InUnmatched(summary[s]) <=> EntriesOf(summary[s]) = {}

-----------------------------------------------------------------------------
(* C3: the left join keeps every aggregated record and fans out per matching *)
(* roster entry: the joined rows carrying a record r number                  *)
(* max(1, matching deduplicated entries), each carries the number of a       *)
(* different matching entry, and r's one row has no Assignment # when no     *)
(* entry matches.                                                            *)

C3_LeftJoinFanOut ==
  Joined =>
    \A s \in 1..Len(summary) :
      LET r    == summary[s]
          rows == JoinedOf(r)
          ents == EntriesOf(r)
      IN  /\ Cardinality(rows) = Max(1, Cardinality(ents))
          /\ ents = {} => \A i \in rows : isna(joined.rows[i]["Assignment #"])
          /\ ents # {} =>
               /\ \A i \in rows : \E e \in ents : joined.rows[i]["Assignment #"] = e[3]
               /\ \A i, j \in rows :
                    i # j => joined.rows[i]["Assignment #"] # joined.rows[j]["Assignment #"]

-----------------------------------------------------------------------------
(* C4: aggregation yields one record per distinct (Employee Name, Pay Rate)  *)
(* pair among the filtered rows, its Hours the sum of reg + ot + dt over the *)
(* pair's rows with unparsable or missing hours counted as 0; rows with a    *)
(* missing Pay Rate form a group of their own per name, so total Hours are   *)
(* kept.                                                                     *)

C4_Aggregation ==
  JustDone("hours") =>
    LET kept == {<<i, RawKey(i), RawHours(i)>> : i \in KeptRows}
        recs == {<<KeyOf(summary[s]), summary[s]["Hours"]>> : s \in 1..Len(summary)}
    IN  /\ Cardinality({r[1] : r \in recs}) = Len(summary)
        /\ {r[1] : r \in recs} = {k[2] : k \in kept}
        /\ \A r \in recs :
             r[2] = SumOver({k \in kept : k[2] = r[1]}, [k \in kept |-> k[3]])
        /\ SumOver(recs, [r \in recs |-> r[2]]) = SumOver(kept, [k \in kept |-> k[3]])

\* two payroll rows without a pay rate were summed into one record
C4_Witness ==
  /\ JustDone("hours")
  /\ \E s \in 1..Len(summary) :
       /\ summary[s]["Pay Rate"] = NaN
       /\ Cardinality({i \in KeptRows : RawKey(i) = KeyOf(summary[s])}) = 2
       /\ summary[s]["Hours"] > 0

-----------------------------------------------------------------------------
(* C5: the client filter keeps a payroll row if and only if its client      *)
(* value, as a string, contains "UCLA" case-insensitively; a row with a     *)
(* missing client is excluded; every row that reaches aggregation, the join *)
(* or the export comes from a kept row.                                     *)

KeptKeys == {RawKey(i) : i \in KeptRows}

KeysOf(rows) == {KeyOf(rows[j]) : j \in 1..Len(rows)}

\* the keys of the rows a stage behind the filter has just put out
KeysDownstream ==
  IF JustDone("hours") THEN KeysOf(summary)
  ELSE IF JustDone("join") /\ {"Employee Name", "Pay Rate"} \subseteq Range(joined.columns)
       THEN KeysOf(joined.rows)
  ELSE IF JustDone("final") THEN KeysOf(final.rows)
  ELSE IF JustDone("export") THEN KeysOf(out_buf[1].rows)
  ELSE {}

C5_ClientFilter ==
  /\ JustDone("filter") =>
       /\ Len(payroll_ucla.rows) = Cardinality(KeptRows)
       /\ \A i \in 1..Len(payroll_df.rows) :
            (payroll_df.rows[i] \in Range(payroll_ucla.rows)) <=>
              (\E k \in KeptRows : payroll_df.rows[k] = payroll_df.rows[i])
       /\ \A j \in 1..Len(payroll_ucla.rows) :
            ~isna(payroll_ucla.rows[j][mapping.client_col])
  /\ KeysDownstream # {} => KeysDownstream \subseteq KeptKeys

\* the filter has kept a row whose client holds "ucla" in lower case and
\* dropped another row
C5_Witness ==
  /\ JustDone("filter")
  /\ \E i \in KeptRows : Contains(payroll_df.rows[i][mapping.client_col], "ucla")
  /\ Len(payroll_ucla.rows) < Len(payroll_df.rows)

-----------------------------------------------------------------------------
(* C6: the row at 1-based position k of the sorted joined sequence gets the *)
(* Unique Line ID made of the 8 digits YYYYMMDD of the week-ending date and *)
(* of k in decimal, zero-padded to at least 4 digits; the IDs of one export *)
(* are pairwise distinct; an ID has exactly 12 characters exactly when      *)
(* k <= 9999.                                                               *)

IdOf(k) == joined.rows[k]["Unique Line ID"]

\* the number of decimal digits of k >= 1
NumDigits(k) == CHOOSE n \in 1..(IdWidth + 2) : Pow10(n - 1) <= k /\ k < Pow10(n)

\* the ID at position k reads as the date, then k
ReadsAsDateThenK(k) ==
  LET id == IdOf(k)
  IN  /\ Len(id) > 8
      /\ IsDigits(id)
      /\ DigitsValue(SubSeq(id, 1, 4)) = custom_we.year
      /\ DigitsValue(SubSeq(id, 5, 6)) = custom_we.month
      /\ DigitsValue(SubSeq(id, 7, 8)) = custom_we.day
      /\ DigitsValue(SubSeq(id, 9, Len(id))) = k

IdsDistinct ==
  Cardinality({IdOf(k) : k \in 1..Len(joined.rows)}) = Len(joined.rows)

C6_LineIds ==
  Past("ids") =>
    /\ \A k \in 1..Len(joined.rows) :
         /\ ReadsAsDateThenK(k)
         /\ Len(IdOf(k)) = 8 + Max(IdWidth, NumDigits(k))
         /\ Len(IdOf(k)) = 12 <=> k <= 9999
    /\ IdsDistinct

\* the statement with every ID exactly 12 characters long, the sequence
\* number always 4 digits
C6_TwelveCharacters ==
  Past("ids") =>
    /\ \A k \in 1..Len(joined.rows) : ReadsAsDateThenK(k) /\ Len(IdOf(k)) = 12
    /\ IdsDistinct

\* IDs were given to an export of 10000 rows
C6_Witness == Past("ids") /\ Len(joined.rows) >= Pow10(IdWidth)

-----------------------------------------------------------------------------
(* C7: the IDs follow the ascending order by (Employee Name, Pay Rate): if  *)
(* output row a has a smaller sequence number than row b, then a's name is  *)
(* lexicographically smaller than b's, or the names are equal and a's pay   *)
(* rate is <= b's or b's pay rate is missing (missing rates sort last       *)
(* within a name); the sort keeps the joined order of rows with the same    *)
(* key.                                                                     *)

SeqNo(k) == DigitsValue(SubSeq(IdOf(k), 9, Len(IdOf(k))))

Numbered == Past("ids") /\ {"Employee Name", "Pay Rate"} \subseteq Range(joined.columns)

RowsInOrder(a, b) ==
  \/ StrLess(joined.rows[a]["Employee Name"], joined.rows[b]["Employee Name"])
  \/ /\ joined.rows[a]["Employee Name"] = joined.rows[b]["Employee Name"]
     /\ NumLeq(joined.rows[a]["Pay Rate"], joined.rows[b]["Pay Rate"])

RowsInOrderNaNLast(a, b) ==
  \/ RowsInOrder(a, b)
  \/ /\ joined.rows[a]["Employee Name"] = joined.rows[b]["Employee Name"]
     /\ joined.rows[b]["Pay Rate"] = NaN

\* the rows of a table that have the key, in the table's order
WithKey(rows, key) ==
  LET has(row) == KeyOf(row) = key IN SelectSeq(rows, has)

\* line 216 as a step: the rows of every key stay in their order
SortKeepsTies ==
  (pc = "sort" /\ pc' = "ids") =>
    /\ Len(joined'.rows) = Len(joined.rows)
    /\ \A i \in 1..Len(joined.rows) :
         WithKey(joined'.rows, KeyOf(joined.rows[i]))
           = WithKey(joined.rows, KeyOf(joined.rows[i]))

IdsAscendNaNLast ==
  Numbered =>
    \A a, b \in 1..Len(joined.rows) : SeqNo(a) < SeqNo(b) => RowsInOrderNaNLast(a, b)

IdsAscend ==
  Numbered =>
    \A a, b \in 1..Len(joined.rows) : SeqNo(a) < SeqNo(b) => RowsInOrder(a, b)

C7_SortedIds == []IdsAscendNaNLast /\ [][SortKeepsTies]_vars

\* the statement with a's pay rate numerically <= b's in every case
C7_RateNeverGreater == []IdsAscend /\ [][SortKeepsTies]_vars

\* numbered rows: two of one key, and one without a rate behind one with a rate
C7_Witness ==
  /\ Numbered
  /\ \E a, b \in 1..Len(joined.rows) :
       a < b /\ KeyOf(joined.rows[a]) = KeyOf(joined.rows[b])
  /\ \E a, b \in 1..Len(joined.rows) :
       /\ a < b
       /\ joined.rows[a]["Pay Rate"] # NaN
       /\ joined.rows[b]["Pay Rate"] = NaN

-----------------------------------------------------------------------------
(* C8: a run either completes every stage in order (read, map, filter,      *)
(* normalize names, sum hours, aggregate, join, sort, assign IDs, export)   *)
(* and produces the export, or halts at the first fatal error and produces  *)
(* no export; rows that merely fail to match never halt the run.            *)

IsPrefix(s, t) == Len(s) <= Len(t) /\ \A i \in 1..Len(s) : s[i] = t[i]

C8_AllStagesOrHalt ==
  /\ pc = "halted" =>
       /\ Len(stages) >= 1
       /\ IsPrefix(SubSeq(stages, 1, Len(stages) - 1), StageOrder)
       /\ stages[Len(stages)] \notin Range(StageOrder)
       /\ ~Past("unmatched")
  /\ pc # "halted" =>
       /\ IsPrefix(stages, StageOrder)
       /\ pc = IF stages = StageOrder THEN "done" ELSE StageOrder[Len(stages) + 1]
  /\ pc = "done" => out_buf # <<>> /\ download.data = out_buf
  /\ pc # "done" => out_buf = <<>> /\ download = NoDownload

\* a run came to its end with rows in the Unmatched report
C8_Witness == pc = "done" /\ stages = StageOrder /\ Len(unmatched.rows) > 0

-----------------------------------------------------------------------------
(* C9: the workbook always has the sheet Export, with every row of the      *)
(* sorted joined sequence under the seven fixed columns, also when there is *)
(* no row; it has the sheet Unmatched, with exactly the rows whose          *)
(* Assignment # is absent, if and only if there is such a row.              *)

NoNumber == {i \in 1..Len(joined.rows) : isna(joined.rows[i]["Assignment #"])}

ExportSheetHoldsAll(sheet) ==
  /\ sheet.sheet_name = "Export"
  /\ sheet.columns = <<"Assignment #", "Employee Name", "Pay Rate", "Work Date",
                       "Weekending Date", "Hours", "Unique Line ID">>
  /\ Len(sheet.rows) = Len(joined.rows)
  /\ \A i \in 1..Len(sheet.rows) :
       /\ DOMAIN sheet.rows[i] = Range(sheet.columns)
       /\ \A c \in DOMAIN sheet.rows[i] : sheet.rows[i][c] = joined.rows[i][c]

UnmatchedSheetHoldsAbsent(sheet) ==
  /\ sheet.sheet_name = "Unmatched"
  /\ sheet.columns = <<"Employee Name", "Pay Rate", "Hours">>
  /\ Len(sheet.rows) = Cardinality(NoNumber)
  /\ \A j \in 1..Len(sheet.rows) :
       \E i \in NoNumber :
         /\ DOMAIN sheet.rows[j] = Range(sheet.columns)
         /\ \A c \in DOMAIN sheet.rows[j] : sheet.rows[j][c] = joined.rows[i][c]
  /\ \A i \in NoNumber :
       \E j \in 1..Len(sheet.rows) :
         \A c \in DOMAIN sheet.rows[j] : sheet.rows[j][c] = joined.rows[i][c]

C9_Workbook ==
  pc = "done" =>
    /\ Len(out_buf) = 1 + (IF NoNumber # {} THEN 1 ELSE 0)
    /\ ExportSheetHoldsAll(out_buf[1])
    /\ NoNumber # {} => UnmatchedSheetHoldsAbsent(out_buf[2])

\* the statement with one sheet per non-empty sequence
C9_SheetPerNonEmptySequence ==
  pc = "done" =>
    /\ Len(out_buf) = (IF Len(joined.rows) # 0 THEN 1 ELSE 0)
                      + (IF NoNumber # {} THEN 1 ELSE 0)
    /\ Len(joined.rows) # 0 => ExportSheetHoldsAll(out_buf[1])
    /\ NoNumber # {} => UnmatchedSheetHoldsAbsent(out_buf[Len(out_buf)])

\* a workbook of two sheets, with a row that has a number and one that has none
C9_Witness ==
  /\ pc = "done"
  /\ Len(out_buf) = 2
  /\ NoNumber # {}
  /\ \E i \in 1..Len(joined.rows) : i \notin NoNumber

-----------------------------------------------------------------------------
(* C10: for every anchor date on or after 0001-01-07, most_recent_sunday    *)
(* terminates and returns the one date d that is a Sunday, is not after the *)
(* anchor, and lies 0 to 6 days before it: the anchor itself when that is  *)
(* a Sunday, and always the anchor minus ((weekday(anchor) + 1) mod 7)      *)
(* days; for the six dates before, the call ends in an OverflowError.       *)

\* 0001-01-07, ordinal 7, is the first Sunday of the calendar
IsSunday(o) == o % 7 = 0

FirstSunday == MinOrdinal + 6

SundayReturned ==
  sundayPc = "returned" =>
    /\ IsSunday(d)
    /\ d <= anchor
    /\ anchor - d \in 0..6
    /\ IsSunday(anchor) => d = anchor
    /\ d = anchor - ((Weekday(anchor) + 1) % 7)
    /\ \A e \in MinOrdinal..MaxOrdinal + 1 :
         (IsSunday(e) /\ e <= anchor /\ anchor - e \in 0..6) => e = d

C10_MostRecentSunday ==
  /\ <>(sundayPc \in {"returned", "OverflowError"})
  /\ []SundayReturned
  /\ [](sundayPc = "OverflowError" => anchor < FirstSunday)
  /\ [](sundayPc = "returned" => anchor >= FirstSunday)

\* the statement for every anchor date: a call that has ended has returned
C10_EveryAnchor ==
  /\ sundayPc \in {"returned", "OverflowError"} => sundayPc = "returned"
  /\ SundayReturned

\* a call on a Saturday returned the date six days before
C10_Witness == sundayPc = "returned" /\ anchor - d = 6


====
